---- MODULE Spec2Model ----
(***************************************************************************)
(* Model of the /exec/<lang> request handler of application.py and of the  *)
(* archive helpers of utils.py.  One behaviour follows one request from    *)
(* the moment it arrives to the moment the response leaves the handler.    *)
(* The container engine, the host file system and the sandboxed program    *)
(* are the environment: every call into them either returns or raises one  *)
(* of the exception classes the handler distinguishes.                     *)
(***************************************************************************)
EXTENDS Integers, Sequences, FiniteSets, TLC

VARIABLES
    pc,         \* position of the handler in exec()
    req,        \* the parsed request (request.get_json() and <lang>)
    ws,         \* the TemporaryDirectory: "none", "live" or "destroyed"
    wsFiles,    \* files present in the TemporaryDirectory
    handle,     \* TRUE when the local name `container` is bound
    cstate,     \* the container inside the engine
    copiedIn,   \* TRUE once copy_host_to_container has returned
    res,        \* res['StatusCode'], NoStatus while unset
    logs,       \* which of stdout / stderr have been read
    stat,       \* stat['size'] of the archive (copy_container_to_host)
    maxsize,    \* the maxsize argument of copy_container_to_host
    chunks,     \* chunks of the archive written to the BytesIO buffer
    fileKind,   \* what the output file produced by the sandbox contains
    payload,    \* output_file_payload
    exc,        \* the exception in flight
    result,     \* the response of the handler
    n,          \* counters of the calls issued so far
    hist        \* facts about the run that later steps do not keep

\* Requests served at the same time (one exec() call each), seen through what
\* they share: the host's temporary directories and the engine's containers
VARIABLES
    fpc,        \* position of each call of exec()
    tmpdir,     \* the local name `tmpdir` of each call
    container,  \* the local name `container` of each call
    host,       \* the temporary directories of the host
    engine,     \* the containers of the engine
    last,       \* the last call issued against a directory or a container
    out         \* where the output_file_payload of each call comes from

single == <<pc, req, ws, wsFiles, handle, cstate, copiedIn, res, logs, stat,
            maxsize, chunks, fileKind, payload, exc, result, n, hist>>

conc == <<fpc, tmpdir, container, host, engine, last, out>>

vars == <<single, conc>>

-----------------------------------------------------------------------------
(* Bounds of the model *)

\* longest code payload, in characters
MaxCodeLen == 4
\* largest size, in MiB, the engine reports for an archive
MaxStat == 6
\* largest maxsize, in MiB, given to copy_container_to_host on its own
MaxLimit == 5
\* largest exit status of the sandboxed command
MaxExit == 2
\* most chunks an archive stream is delivered in
MaxChunks == 2

\* requests served at the same time
NumFlows == 2

(* Program constants *)

\* MAX_OUTPUT_FILESIZE, in MiB
MAX_OUTPUT_FILESIZE == 4

LANGS == {"py37", "py36", "py35", "py27"}
TOKENS == {"tok1"}

-----------------------------------------------------------------------------
(* Requests *)

\* "A" stands for a character of [a-zA-Z0-9+/], "=" for the pad character,
\* "!" for any other character.
B64Chars == {"A", "=", "!"}

RECURSIVE SeqsUpTo(_, _)
SeqsUpTo(S, k) ==
    IF k = 0 THEN {<<>>}
    ELSE LET shorter == SeqsUpTo(S, k - 1)
         IN  shorter \cup {Append(s, c) : s \in {t \in shorter : Len(t) = k - 1}, c \in S}

Codes == SeqsUpTo(B64Chars, MaxCodeLen)

\* Absent: the key is not in the JSON object.  Null: the key is there and null.
Absent == "<absent>"
Null == "<null>"

Requests ==
    [ is_json          : BOOLEAN,
      code             : Codes,
      token            : {Absent, "tok1", "nope"},
      output_file      : {Absent, "out.dat", "../out.dat"},
      output_file_type : {Absent, Null, "text", "base64_encoded_binary", "json", "xml"},
      lang             : {"py37", "ruby"} ]

NoReq == [ is_json |-> FALSE, code |-> <<>>, token |-> Absent,
           output_file |-> Absent, output_file_type |-> Absent, lang |-> Absent ]

\* BASE64_REGEX.match: ^[a-zA-Z0-9+/]+={0,2}$
BASE64_REGEX(s) ==
    \E k \in 0..2 :
        /\ Len(s) - k >= 1
        /\ \A i \in 1..(Len(s) - k) : s[i] = "A"
        /\ \A i \in (Len(s) - k + 1)..Len(s) : s[i] = "="

\* FILENAME_REGEX.match: ^[\w,\s-]+\.[A-Za-z]{1,4}$ over the names of the model
FILENAME_REGEX(f) == f \in {"out.dat"}

\* base64.b64decode(s) of the standard library, without validation: characters
\* outside the alphabet are dropped, a pad that completes a quad ends the input,
\* and input that ends inside a quad is an error (binascii.Error).
RECURSIVE B64Scan(_, _, _, _)
B64Scan(s, i, quad, pads) ==
    IF i > Len(s) THEN quad = 0
    ELSE IF s[i] = "=" THEN
        IF quad >= 2 /\ quad + pads + 1 >= 4 THEN TRUE
        ELSE B64Scan(s, i + 1, quad, IF quad >= 2 THEN pads + 1 ELSE pads)
    ELSE IF s[i] = "A" THEN B64Scan(s, i + 1, (quad + 1) % 4, 0)
    ELSE B64Scan(s, i + 1, quad, pads)

b64decode(s) == B64Scan(s, 1, 0, 0)

\* req.get(key): None for a missing key and for a null value alike
Get(v) == IF v = Absent THEN Null ELSE v

\* req.get(key, default): the default for a missing key only
GetOr(v, default) == IF v = Absent THEN default ELSE v

\* The input validation checks of exec(), in their order: the message of the
\* first check that fails, "ok" when none does.
Validation(r) ==
    IF ~r.is_json THEN "not_json"
    ELSE IF r.code = <<>> THEN "empty"
    ELSE IF r.token = Absent THEN "no_token"
    ELSE IF r.token \notin TOKENS THEN "bad_token"
    ELSE IF ~BASE64_REGEX(r.code) THEN "bad_base64"
    ELSE IF r.output_file # Absent /\ ~FILENAME_REGEX(r.output_file) THEN "bad_filename"
    ELSE IF r.lang \notin LANGS THEN "bad_lang"
    ELSE IF Get(r.output_file_type) \notin {"text", "base64_encoded_binary", "json", Null}
         THEN "bad_type"
    ELSE "ok"

-----------------------------------------------------------------------------
(* Exceptions and responses *)

Exc(t) == [type |-> t, timeout |-> FALSE, size |-> 0, max |-> 0]
NoExc == Exc("none")

\* requests.exceptions.ConnectionError; timeout: its args hold a ReadTimeoutError
ConnectionError(timeout) == [Exc("ConnectionError") EXCEPT !.timeout = timeout]

\* utils.FileTooBigException(filename, size, max_size)
FileTooBigException(size, max) ==
    [Exc("FileTooBigException") EXCEPT !.size = size, !.max = max]

\* What a call into the container engine can raise: a connection error with or
\* without a read timeout, docker.errors.NotFound, another DockerException
\* (docker.errors.APIError), or an exception of no class the handler names.
EngineErrors ==
    { ConnectionError(TRUE), ConnectionError(FALSE), Exc("NotFound"),
      Exc("APIError"), Exc("Other") }

NoPayload == [form |-> "empty", of |-> "none"]

NoStatus == -1

Response(msg, http) ==
    [ msg |-> msg, http |-> http, from |-> "none", size |-> 0, max |-> 0,
      success |-> FALSE, exit_code |-> NoStatus, stdout |-> FALSE, stderr |-> FALSE,
      output |-> NoPayload, output_format |-> Null ]

NoResult == Response("none", 0)

\* die(reason, returncode)
die(msg, returncode) == Response(msg, returncode)

\* die(str(e)): the message is the text of the exception
dieStr(e) == [die("str(e)", 400) EXCEPT !.from = e.type, !.size = e.size, !.max = e.max]

\* an exception that leaves exec(): the framework answers 500
Unhandled(e) == [Response("unhandled", 500) EXCEPT !.from = e.type]

\* Handle without the look into e.args for a read timeout
HandleAnyConnectionError(e) ==
    IF e.type = "JSONDecodeError" THEN die("json_parse", 400)
    ELSE IF e.type = "ConnectionError" THEN die("generic", 400)
    ELSE IF e.type \in {"NotFound", "FileTooBigException"} THEN dieStr(e)
    ELSE IF e.type \in {"APIError", "DockerException"} THEN die("generic", 500)
    ELSE NoResult

\* The except clauses of exec(), in their order: the response the matching
\* clause returns, NoResult when no clause matches and the exception goes on.
Handle(e) ==
    IF e.type = "JSONDecodeError" THEN die("json_parse", 400)
    ELSE IF e.type = "ConnectionError" THEN
        IF e.timeout THEN die("timeout", 400) ELSE die("generic", 400)
    ELSE IF e.type \in {"NotFound", "FileTooBigException"} THEN dieStr(e)
    ELSE IF e.type \in {"APIError", "DockerException"} THEN die("generic", 500)
    ELSE NoResult

\* TooBig with the limit itself rejected
TooBigInclusive(size, limit) == limit > 0 /\ size >= limit

\* TooBig with the check left out
TooBigUnchecked(size, limit) == FALSE

\* The size check of copy_container_to_host
TooBig(size, limit) == limit > 0 /\ size > limit

\* ShouldCopyOut without the look at the exit status
ShouldCopyOutDeclared(status, r) == r.output_file # Absent

\* The condition under which exec() copies the output file out
ShouldCopyOut(status, r) == status = 0 /\ r.output_file # Absent

-----------------------------------------------------------------------------
(* State *)

Counters == [mkdir |-> 0, rmtree |-> 0, run |-> 0, put |-> 0, start |-> 0,
             wait |-> 0, logs |-> 0, get |-> 0, remove |-> 0]

History == [validated |-> FALSE, instantiated |-> 0, began |-> 0,
            timedOut |-> FALSE, decided |-> "none", extracted |-> FALSE,
            removeFailed |-> FALSE,
            rmtreeFailed |-> FALSE, createError |-> NoExc]

FileKinds == {"json", "text", "binary"}

\* The calls of exec() running at the same time, the names mkdtemp can give a
\* directory, and the ids the engine can give a container
Flows == 1..NumFlows
Dirs == 1..NumFlows
Ids == 1..NumFlows

\* no call, no directory, no container
None == 0

\* a directory of the host that does not exist / a container never created
NoDir == [owner |-> None, data |-> {}]
NoContainer == [owner |-> None, data |-> {}, state |-> "none"]

\* the call `call`, issued by the exec() call `by`, on resources created by `on`
Call(by, on, call) == [by |-> by, on |-> on, call |-> call]

\* No request is being served yet
FlowsInit ==
    /\ fpc = [f \in Flows |-> "tmpdir"]
    /\ tmpdir = [f \in Flows |-> None]
    /\ container = [f \in Flows |-> None]
    /\ host = [d \in Dirs |-> NoDir]
    /\ engine = [c \in Ids |-> NoContainer]
    /\ last = Call(None, {}, "none")
    /\ out = [f \in Flows |-> {}]

Init ==
    /\ pc = "idle"
    /\ req = NoReq
    /\ ws = "none"
    /\ wsFiles = {}
    /\ handle = FALSE
    /\ cstate = "none"
    /\ copiedIn = FALSE
    /\ res = NoStatus
    /\ logs = [stdout |-> FALSE, stderr |-> FALSE]
    /\ stat = NoStatus
    /\ maxsize = 0
    /\ chunks = 0
    /\ fileKind = "none"
    /\ payload = NoPayload
    /\ exc = NoExc
    /\ result = NoResult
    /\ n = Counters
    /\ hist = History
    /\ FlowsInit

\* raise e inside the try block of exec()
Raise(e) == exc' = e /\ pc' = "except"

\* raise e inside the with block, outside the try block
RaiseOutsideTry(e) == exc' = e /\ pc' = "exit_with"

-----------------------------------------------------------------------------
(* exec(), step by step *)

\* A request arrives.  limit_content_length aborts with 413 when the body is
\* longer than MAX_REQUEST_SIZE, before exec() sees it.
Request ==
    /\ pc = "idle"
    /\ \/ /\ result' = Response("too_large", 413)
          /\ pc' = "done"
          /\ UNCHANGED req
       \/ /\ \E r \in Requests : req' = r
          /\ pc' = "validate"
          /\ UNCHANGED result
    /\ UNCHANGED <<ws, wsFiles, handle, cstate, copiedIn, res, logs, stat, maxsize,
                   chunks, fileKind, payload, exc, n, hist>>
    /\ UNCHANGED conc

\* Input validation checks
Validate ==
    /\ pc = "validate"
    /\ LET v == Validation(req)
       IN  IF v = "ok"
           THEN /\ pc' = "tmpdir"
                /\ hist' = [hist EXCEPT !.validated = TRUE]
                /\ UNCHANGED result
           ELSE /\ pc' = "done"
                /\ result' = die(v, 400)
                /\ UNCHANGED hist
    /\ UNCHANGED <<req, ws, wsFiles, handle, cstate, copiedIn, res, logs, stat, maxsize,
                   chunks, fileKind, payload, exc, n>>
    /\ UNCHANGED conc

\* with tempfile.TemporaryDirectory() as tmpdir
EnterTmpDir ==
    /\ pc = "tmpdir"
    /\ \/ /\ ws' = "live"
          /\ n' = [n EXCEPT !.mkdir = @ + 1]
          /\ pc' = "write"
          /\ UNCHANGED <<exc, result>>
       \/ /\ exc' = Exc("OSError")
          /\ result' = Unhandled(Exc("OSError"))
          /\ pc' = "done"
          /\ UNCHANGED <<ws, n>>
    /\ UNCHANGED <<req, wsFiles, handle, cstate, copiedIn, res, logs, stat, maxsize,
                   chunks, fileKind, payload, hist>>
    /\ UNCHANGED conc

\* run.py is opened, the code is decoded and written; requirements.txt is written
WriteFiles ==
    /\ pc = "write"
    /\ IF ~b64decode(req.code)
       THEN /\ wsFiles' = {"run.py"}
            /\ RaiseOutsideTry(Exc("binascii.Error"))
       ELSE \/ /\ wsFiles' = {"run.py", "requirements.txt"}
               /\ pc' = "from_env"
               /\ UNCHANGED exc
            \/ /\ wsFiles' = {"run.py"}
               /\ RaiseOutsideTry(Exc("OSError"))
    /\ UNCHANGED <<req, ws, handle, cstate, copiedIn, res, logs, stat, maxsize,
                   chunks, fileKind, payload, result, n, hist>>
    /\ UNCHANGED conc

\* dockerClient = docker.from_env()
FromEnv ==
    /\ pc = "from_env"
    /\ \/ pc' = "run" /\ UNCHANGED exc
       \/ RaiseOutsideTry(Exc("DockerException"))
    /\ UNCHANGED <<req, ws, wsFiles, handle, cstate, copiedIn, res, logs, stat, maxsize,
                   chunks, fileKind, payload, result, n, hist>>
    /\ UNCHANGED conc

\* container = dockerClient.containers.run(..., detach=True): the engine creates
\* the container and starts it, and the call returns the container.  The call
\* can fail before the container exists, or after it was created, when starting
\* it fails; either way `container` is left unbound.
Run ==
    /\ pc = "run"
    /\ n' = [n EXCEPT !.run = @ + 1]
    /\ \/ /\ handle' = TRUE
          /\ cstate' = "running"
          /\ hist' = [hist EXCEPT !.instantiated = @ + 1, !.began = @ + 1]
          /\ pc' = "copy_in"
          /\ UNCHANGED exc
       \/ /\ \E e \in EngineErrors :
                 Raise(e) /\ hist' = [hist EXCEPT !.createError = e]
          /\ UNCHANGED <<handle, cstate>>
       \/ /\ \E e \in EngineErrors :
                 /\ Raise(e)
                 /\ hist' = [hist EXCEPT !.instantiated = @ + 1, !.createError = e]
          /\ cstate' = "created"
          /\ UNCHANGED handle
    /\ UNCHANGED <<req, ws, wsFiles, copiedIn, res, logs, stat, maxsize,
                   chunks, fileKind, payload, result>>
    /\ UNCHANGED conc

\* The sandboxed command ends on its own
Sandbox ==
    /\ cstate = "running"
    /\ cstate' = "exited"
    /\ UNCHANGED <<pc, req, ws, wsFiles, handle, copiedIn, res, logs, stat, maxsize,
                   chunks, fileKind, payload, exc, result, n, hist>>
    /\ UNCHANGED conc

\* copy_host_to_container, the directory branch: the first put_archive
PutArchive1 ==
    /\ pc = "copy_in"
    /\ n' = [n EXCEPT !.put = @ + 1]
    /\ \/ pc' = "copy_in_again" /\ UNCHANGED exc
       \/ \E e \in EngineErrors : Raise(e)
    /\ UNCHANGED <<req, ws, wsFiles, handle, cstate, copiedIn, res, logs, stat, maxsize,
                   chunks, fileKind, payload, result, hist>>
    /\ UNCHANGED conc

\* copy_host_to_container: the second put_archive, after which it returns
PutArchive2 ==
    /\ pc = "copy_in_again"
    /\ n' = [n EXCEPT !.put = @ + 1]
    /\ \/ pc' = "start" /\ copiedIn' = TRUE /\ UNCHANGED exc
       \/ (\E e \in EngineErrors : Raise(e)) /\ UNCHANGED copiedIn
    /\ UNCHANGED <<req, ws, wsFiles, handle, cstate, res, logs, stat, maxsize,
                   chunks, fileKind, payload, result, hist>>
    /\ UNCHANGED conc

\* container.start(): starts the command of a container that is not running
Start ==
    /\ pc = "start"
    /\ n' = [n EXCEPT !.start = @ + 1]
    /\ \/ /\ pc' = "wait"
          /\ cstate' = "running"
          /\ hist' = [hist EXCEPT !.began = IF cstate = "running" THEN @ ELSE @ + 1]
          /\ UNCHANGED exc
       \/ /\ \E e \in EngineErrors : Raise(e)
          /\ UNCHANGED <<cstate, hist>>
    /\ UNCHANGED <<req, ws, wsFiles, handle, copiedIn, res, logs, stat, maxsize,
                   chunks, fileKind, payload, result>>
    /\ UNCHANGED conc

\* Wait without the timeout: the call does not return while the command runs
WaitWithoutTimeout ==
    /\ pc = "wait"
    /\ cstate # "running"
    /\ n' = [n EXCEPT !.wait = @ + 1]
    /\ \/ /\ cstate = "exited"
          /\ \E code \in 0..MaxExit : res' = code
          /\ pc' = "logs_out"
          /\ UNCHANGED <<exc, hist>>
       \/ /\ cstate = "running"
          /\ Raise(ConnectionError(TRUE))
          /\ hist' = [hist EXCEPT !.timedOut = TRUE]
          /\ UNCHANGED res
       \/ /\ \E e \in EngineErrors \ {ConnectionError(TRUE)} : Raise(e)
          /\ UNCHANGED <<res, hist>>
    /\ UNCHANGED <<req, ws, wsFiles, handle, cstate, copiedIn, logs, stat, maxsize,
                   chunks, fileKind, payload, result>>
    /\ UNCHANGED conc

\* res = container.wait(timeout=MAX_EXECUTION_LIMIT): the exit status once the
\* command has ended; a connection error holding a read timeout while it runs
Wait ==
    /\ pc = "wait"
    /\ n' = [n EXCEPT !.wait = @ + 1]
    /\ \/ /\ cstate = "exited"
          /\ \E code \in 0..MaxExit : res' = code
          /\ pc' = "logs_out"
          /\ UNCHANGED <<exc, hist>>
       \/ /\ cstate = "running"
          /\ Raise(ConnectionError(TRUE))
          /\ hist' = [hist EXCEPT !.timedOut = TRUE]
          /\ UNCHANGED res
       \/ /\ \E e \in EngineErrors \ {ConnectionError(TRUE)} : Raise(e)
          /\ UNCHANGED <<res, hist>>
    /\ UNCHANGED <<req, ws, wsFiles, handle, cstate, copiedIn, logs, stat, maxsize,
                   chunks, fileKind, payload, result>>
    /\ UNCHANGED conc

\* stdout = container.logs(stdout=True, stderr=False)
LogsOut ==
    /\ pc = "logs_out"
    /\ n' = [n EXCEPT !.logs = @ + 1]
    /\ \/ logs' = [logs EXCEPT !.stdout = TRUE] /\ pc' = "logs_err" /\ UNCHANGED exc
       \/ (\E e \in EngineErrors : Raise(e)) /\ UNCHANGED logs
    /\ UNCHANGED <<req, ws, wsFiles, handle, cstate, copiedIn, res, stat, maxsize,
                   chunks, fileKind, payload, result, hist>>
    /\ UNCHANGED conc

\* stderr = container.logs(stdout=False, stderr=True)
LogsErr ==
    /\ pc = "logs_err"
    /\ n' = [n EXCEPT !.logs = @ + 1]
    /\ \/ logs' = [logs EXCEPT !.stderr = TRUE] /\ pc' = "check_output" /\ UNCHANGED exc
       \/ (\E e \in EngineErrors : Raise(e)) /\ UNCHANGED logs
    /\ UNCHANGED <<req, ws, wsFiles, handle, cstate, copiedIn, res, stat, maxsize,
                   chunks, fileKind, payload, result, hist>>
    /\ UNCHANGED conc

\* output_file_payload = ''; if res['StatusCode'] == 0 and 'output_file' in req
CheckOutput ==
    /\ pc = "check_output"
    /\ payload' = NoPayload
    /\ IF ShouldCopyOut(res, req)
       THEN /\ pc' = "get_archive"
            /\ maxsize' = MAX_OUTPUT_FILESIZE
            /\ hist' = [hist EXCEPT !.decided = "copy"]
       ELSE /\ pc' = "finally"
            /\ hist' = [hist EXCEPT !.decided = "skip"]
            /\ UNCHANGED maxsize
    /\ UNCHANGED <<req, ws, wsFiles, handle, cstate, copiedIn, res, logs, stat,
                   chunks, fileKind, exc, result, n>>
    /\ UNCHANGED conc

-----------------------------------------------------------------------------
(* utils.copy_container_to_host, step by step *)

\* bits, stat = container.get_archive(file), then the size check.  The archive
\* is a stream: no chunk of it has been read when the call returns.
GetArchive ==
    /\ pc = "get_archive"
    /\ n' = [n EXCEPT !.get = @ + 1]
    /\ \/ /\ \E e \in EngineErrors : Raise(e)
          /\ UNCHANGED <<stat, fileKind>>
       \/ /\ \E size \in 0..MaxStat : stat' = size
          /\ \E k \in FileKinds : fileKind' = k
          /\ IF TooBig(stat', maxsize)
             THEN Raise(FileTooBigException(stat', maxsize))
             ELSE pc' = "read_chunks" /\ UNCHANGED exc
    /\ UNCHANGED <<req, ws, wsFiles, handle, cstate, copiedIn, res, logs, maxsize,
                   chunks, payload, result, hist>>
    /\ UNCHANGED conc

\* for chunk in bits: stream.write(chunk)
ReadChunks ==
    /\ pc = "read_chunks"
    /\ \/ /\ \E c \in 1..MaxChunks : chunks' = c
          /\ pc' = "extract"
          /\ UNCHANGED exc
       \/ /\ \E c \in 0..(MaxChunks - 1) : chunks' = c
          /\ \E e \in {ConnectionError(TRUE), ConnectionError(FALSE), Exc("Other")} : Raise(e)
    /\ UNCHANGED <<req, ws, wsFiles, handle, cstate, copiedIn, res, logs, stat, maxsize,
                   fileKind, payload, result, n, hist>>
    /\ UNCHANGED conc

\* with tarfile.TarFile(fileobj=stream) as archive: archive.extractall(dest_path)
Extract ==
    /\ pc = "extract"
    /\ \/ /\ wsFiles' = wsFiles \cup {req.output_file}
          /\ hist' = [hist EXCEPT !.extracted = TRUE]
          /\ pc' = "interpret"
          /\ UNCHANGED exc
       \/ /\ Raise(Exc("ReadError"))
          /\ UNCHANGED <<wsFiles, hist>>
    /\ UNCHANGED <<req, ws, handle, cstate, copiedIn, res, logs, stat, maxsize,
                   chunks, fileKind, payload, result, n>>
    /\ UNCHANGED conc

-----------------------------------------------------------------------------
(* exec(), continued *)

\* The output file is read and interpreted as output_file_type asks.  A file
\* opened in text mode is decoded when read: bytes that are no text raise
\* UnicodeDecodeError.  json.loads raises JSONDecodeError on text that is no JSON.
Interpret ==
    /\ pc = "interpret"
    /\ LET type_ == GetOr(req.output_file_type, "base64_encoded_binary")
       IN  IF type_ = "text" THEN
               IF fileKind = "binary"
               THEN Raise(Exc("UnicodeDecodeError")) /\ UNCHANGED payload
               ELSE /\ payload' = [form |-> "text", of |-> fileKind]
                    /\ pc' = "finally"
                    /\ UNCHANGED exc
           ELSE IF type_ = "json" THEN
               IF fileKind = "binary"
               THEN Raise(Exc("UnicodeDecodeError")) /\ UNCHANGED payload
               ELSE IF fileKind = "text"
               THEN Raise(Exc("JSONDecodeError")) /\ UNCHANGED payload
               ELSE /\ payload' = [form |-> "json", of |-> fileKind]
                    /\ pc' = "finally"
                    /\ UNCHANGED exc
           ELSE IF type_ = "base64_encoded_binary" THEN
               /\ payload' = [form |-> "base64", of |-> fileKind]
               /\ pc' = "finally"
               /\ UNCHANGED exc
           ELSE /\ pc' = "finally"
                /\ UNCHANGED <<payload, exc>>
    /\ UNCHANGED <<req, ws, wsFiles, handle, cstate, copiedIn, res, logs, stat, maxsize,
                   chunks, fileKind, result, n, hist>>
    /\ UNCHANGED conc

\* The except clauses: the clause that matches returns its response, which
\* is held until the finally clause and the with block have been left.
Except ==
    /\ pc = "except"
    /\ IF Handle(exc) # NoResult
       THEN result' = Handle(exc) /\ exc' = NoExc
       ELSE UNCHANGED <<result, exc>>
    /\ pc' = "finally"
    /\ UNCHANGED <<req, ws, wsFiles, handle, cstate, copiedIn, res, logs, stat, maxsize,
                   chunks, fileKind, payload, n, hist>>
    /\ UNCHANGED conc

\* Finally with the removal placed after the try statement instead of in its
\* finally clause: it runs only when nothing was raised
FinallyAfterTry ==
    /\ pc = "finally"
    /\ IF handle /\ exc = NoExc /\ result = NoResult
       THEN /\ n' = [n EXCEPT !.remove = @ + 1]
            /\ \/ cstate' = "removed" /\ UNCHANGED hist
               \/ hist' = [hist EXCEPT !.removeFailed = TRUE] /\ UNCHANGED cstate
       ELSE UNCHANGED <<n, cstate, hist>>
    /\ pc' = "exit_with"
    /\ UNCHANGED <<req, ws, wsFiles, handle, copiedIn, res, logs, stat, maxsize,
                   chunks, fileKind, payload, exc, result>>
    /\ UNCHANGED conc

\* Finally without the try / except around the removal: the NameError of an
\* unbound `container`, or the error of the engine, is raised from the finally
\* clause in place of whatever was being returned
FinallyUnguarded ==
    /\ pc = "finally"
    /\ IF handle
       THEN /\ n' = [n EXCEPT !.remove = @ + 1]
            /\ \/ cstate' = "removed" /\ UNCHANGED <<hist, exc, result>>
               \/ /\ hist' = [hist EXCEPT !.removeFailed = TRUE]
                  /\ exc' = Exc("APIError")
                  /\ result' = NoResult
                  /\ UNCHANGED cstate
       ELSE /\ exc' = Exc("NameError")
            /\ result' = NoResult
            /\ UNCHANGED <<n, cstate, hist>>
    /\ pc' = "exit_with"
    /\ UNCHANGED <<req, ws, wsFiles, handle, copiedIn, res, logs, stat, maxsize,
                   chunks, fileKind, payload>>
    /\ UNCHANGED conc

\* finally: try: container.remove(force=True) except: pass.  With `container`
\* unbound the statement raises NameError, which the bare except discards,
\* and nothing is sent to the engine.
Finally ==
    /\ pc = "finally"
    /\ IF handle
       THEN /\ n' = [n EXCEPT !.remove = @ + 1]
            /\ \/ cstate' = "removed" /\ UNCHANGED hist
               \/ hist' = [hist EXCEPT !.removeFailed = TRUE] /\ UNCHANGED cstate
       ELSE UNCHANGED <<n, cstate, hist>>
    /\ pc' = "exit_with"
    /\ UNCHANGED <<req, ws, wsFiles, handle, copiedIn, res, logs, stat, maxsize,
                   chunks, fileKind, payload, exc, result>>
    /\ UNCHANGED conc

\* What follows the with block: an exception in flight goes on to the
\* framework, a response held by an except clause is returned, and otherwise
\* the handler goes on to build the outcome.
Leave ==
    IF exc # NoExc
    THEN result' = Unhandled(exc) /\ pc' = "done" /\ UNCHANGED exc
    ELSE IF result # NoResult
    THEN pc' = "done" /\ UNCHANGED <<result, exc>>
    ELSE pc' = "return" /\ UNCHANGED <<result, exc>>

\* ExitWith with the directory removed by a statement at the end of the block
\* instead of by the with statement: an exception skips it
ExitWithoutCleanupOnError ==
    /\ pc = "exit_with"
    /\ IF exc = NoExc
       THEN ws' = "destroyed" /\ wsFiles' = {} /\ n' = [n EXCEPT !.rmtree = @ + 1]
       ELSE UNCHANGED <<ws, wsFiles, n>>
    /\ Leave
    /\ UNCHANGED <<req, handle, cstate, copiedIn, res, logs, stat, maxsize,
                   chunks, fileKind, payload, hist>>
    /\ UNCHANGED conc

\* The with block is left: TemporaryDirectory.cleanup() removes the directory.
ExitWith ==
    /\ pc = "exit_with"
    /\ n' = [n EXCEPT !.rmtree = @ + 1]
    /\ ws' = "destroyed"
    /\ wsFiles' = {}
    /\ Leave
    /\ UNCHANGED <<req, handle, cstate, copiedIn, res, logs, stat, maxsize,
                   chunks, fileKind, payload, hist>>
    /\ UNCHANGED conc

\* The with block is left and the host fails to remove the directory: the
\* error of cleanup() is raised in place of whatever was being returned.
ExitWithFails ==
    /\ pc = "exit_with"
    /\ n' = [n EXCEPT !.rmtree = @ + 1]
    /\ hist' = [hist EXCEPT !.rmtreeFailed = TRUE]
    /\ exc' = Exc("OSError")
    /\ result' = Unhandled(Exc("OSError"))
    /\ pc' = "done"
    /\ UNCHANGED <<req, ws, wsFiles, handle, cstate, copiedIn, res, logs, stat, maxsize,
                   chunks, fileKind, payload>>
    /\ UNCHANGED conc

\* Return with the success flag set for every exit status
ReturnAlwaysSuccess ==
    /\ pc = "return"
    /\ result' = [ Response("outcome", 200) EXCEPT
                       !.success = TRUE,
                       !.exit_code = res,
                       !.stdout = logs.stdout,
                       !.stderr = logs.stderr,
                       !.output = payload,
                       !.output_format = GetOr(req.output_file_type, "base64_encoded_binary") ]
    /\ pc' = "done"
    /\ UNCHANGED <<req, ws, wsFiles, handle, cstate, copiedIn, res, logs, stat, maxsize,
                   chunks, fileKind, payload, exc, n, hist>>
    /\ UNCHANGED conc

\* Return with the output file read here, after the with block, instead of
\* inside it
ReturnReadsOutputFile ==
    /\ pc = "return"
    /\ payload' = IF hist.extracted THEN [form |-> "late", of |-> fileKind] ELSE payload
    /\ result' = [ Response("outcome", IF res = 0 THEN 200 ELSE 400) EXCEPT
                       !.success = (res = 0),
                       !.exit_code = res,
                       !.stdout = logs.stdout,
                       !.stderr = logs.stderr,
                       !.output = payload',
                       !.output_format = GetOr(req.output_file_type, "base64_encoded_binary") ]
    /\ pc' = "done"
    /\ UNCHANGED <<req, ws, wsFiles, handle, cstate, copiedIn, res, logs, stat, maxsize,
                   chunks, fileKind, exc, n, hist>>
    /\ UNCHANGED conc

\* Returning the command
Return ==
    /\ pc = "return"
    /\ result' = [ Response("outcome", IF res = 0 THEN 200 ELSE 400) EXCEPT
                       !.success = (res = 0),
                       !.exit_code = res,
                       !.stdout = logs.stdout,
                       !.stderr = logs.stderr,
                       !.output = payload,
                       !.output_format = GetOr(req.output_file_type, "base64_encoded_binary") ]
    /\ pc' = "done"
    /\ UNCHANGED <<req, ws, wsFiles, handle, cstate, copiedIn, res, logs, stat, maxsize,
                   chunks, fileKind, payload, exc, n, hist>>
    /\ UNCHANGED conc

Next ==
    \/ Request
    \/ Validate
    \/ EnterTmpDir
    \/ WriteFiles
    \/ FromEnv
    \/ Run
    \/ Sandbox
    \/ PutArchive1
    \/ PutArchive2
    \/ Start
    \/ Wait
    \/ LogsOut
    \/ LogsErr
    \/ CheckOutput
    \/ GetArchive
    \/ ReadChunks
    \/ Extract
    \/ Interpret
    \/ Except
    \/ Finally
    \/ ExitWith
    \/ Return

\* The handler on a host that removes the temporary directory when asked
Spec == Init /\ [][Next]_vars

\* The handler runs on: a call into the engine returns or raises, and no step
\* of exec() is put off for ever.  The sandboxed command is under no such
\* duty: it may run for ever.
Progress == Next /\ pc' # pc

LiveSpec == Init /\ [][Next]_vars /\ WF_vars(Progress)

\* The handler on a host where removing the temporary directory can fail
FaultNext == Next \/ ExitWithFails

FaultSpec == Init /\ [][FaultNext]_vars

-----------------------------------------------------------------------------
(* copy_container_to_host on its own, with any maxsize *)

CopyInit ==
    /\ pc = "get_archive"
    /\ req \in {r \in Requests : Validation(r) = "ok" /\ b64decode(r.code)
                                 /\ r.output_file # Absent}
    /\ ws = "live"
    /\ wsFiles = {"run.py", "requirements.txt"}
    /\ handle = TRUE
    /\ cstate = "exited"
    /\ copiedIn = TRUE
    /\ res = 0
    /\ logs = [stdout |-> TRUE, stderr |-> TRUE]
    /\ stat = NoStatus
    /\ maxsize \in 0..MaxLimit
    /\ chunks = 0
    /\ fileKind = "none"
    /\ payload = NoPayload
    /\ exc = NoExc
    /\ result = NoResult
    /\ n = Counters
    /\ hist = History
    /\ FlowsInit

CopyNext == GetArchive \/ ReadChunks \/ Extract

CopySpec == CopyInit /\ [][CopyNext]_vars

-----------------------------------------------------------------------------
(* Several calls of exec() at the same time.  Every name exec() uses is a  *)
(* local of the call; the calls meet in the host's temporary directories   *)
(* and in the engine's containers.  What a directory or a container holds  *)
(* is tracked by the call it comes from.                                   *)

\* with tempfile.TemporaryDirectory() as tmpdir: mkdtemp creates a directory
\* under a name that no existing directory has
FlowEnterTmpDir(f) ==
    /\ fpc[f] = "tmpdir"
    /\ \E d \in Dirs :
          /\ host[d] = NoDir
          /\ host' = [host EXCEPT ![d] = [owner |-> f, data |-> {}]]
          /\ tmpdir' = [tmpdir EXCEPT ![f] = d]
    /\ fpc' = [fpc EXCEPT ![f] = "write"]
    /\ UNCHANGED <<container, engine, last, out, single>>

\* run.py and requirements.txt are written into tmpdir
FlowWriteFiles(f) ==
    /\ fpc[f] = "write"
    /\ last' = Call(f, {host[tmpdir[f]].owner}, "write")
    /\ host' = [host EXCEPT ![tmpdir[f]].data = @ \cup {f}]
    /\ fpc' = [fpc EXCEPT ![f] = "run"]
    /\ UNCHANGED <<tmpdir, container, engine, out, single>>

\* container = dockerClient.containers.run(...): the engine creates a container
\* under an id of its own choice, never used before; the call binds `container`,
\* or fails after or before the container was created
FlowRun(f) ==
    /\ fpc[f] = "run"
    /\ \/ \E c \in Ids :
             /\ engine[c] = NoContainer
             /\ engine' = [engine EXCEPT ![c] = [owner |-> f, data |-> {}, state |-> "alive"]]
             /\ \/ /\ container' = [container EXCEPT ![f] = c]
                   /\ fpc' = [fpc EXCEPT ![f] = "copy_in"]
                \/ /\ fpc' = [fpc EXCEPT ![f] = "finally"]
                   /\ UNCHANGED container
       \/ /\ fpc' = [fpc EXCEPT ![f] = "finally"]
          /\ UNCHANGED <<container, engine>>
    /\ UNCHANGED <<tmpdir, host, last, out, single>>

\* utils.copy_host_to_container(container, tmpdir, ...): what tmpdir holds is put
\* into the container; the engine answers NotFound for a container that is gone
FlowCopyIn(f) ==
    /\ fpc[f] = "copy_in"
    /\ last' = Call(f, {engine[container[f]].owner, host[tmpdir[f]].owner}, "put_archive")
    /\ \/ /\ engine[container[f]].state = "alive"
          /\ engine' = [engine EXCEPT ![container[f]].data = @ \cup host[tmpdir[f]].data]
          /\ fpc' = [fpc EXCEPT ![f] = "wait"]
       \/ /\ fpc' = [fpc EXCEPT ![f] = "finally"]
          /\ UNCHANGED engine
    /\ UNCHANGED <<tmpdir, container, host, out, single>>

\* container.start(), container.wait(timeout=...), container.logs(...): the
\* call goes on to the output file, or leaves the try block (a timeout, an
\* error of the engine, a non-zero status, no output_file in the request)
FlowWait(f) ==
    /\ fpc[f] = "wait"
    /\ last' = Call(f, {engine[container[f]].owner}, "wait")
    /\ \/ /\ engine[container[f]].state = "alive"
          /\ fpc' = [fpc EXCEPT ![f] = "copy_out"]
       \/ fpc' = [fpc EXCEPT ![f] = "finally"]
    /\ UNCHANGED <<tmpdir, container, host, engine, out, single>>

\* utils.copy_container_to_host(container, ..., tmpdir, ...): the archive of the
\* container is extracted into tmpdir
FlowCopyOut(f) ==
    /\ fpc[f] = "copy_out"
    /\ last' = Call(f, {engine[container[f]].owner, host[tmpdir[f]].owner}, "get_archive")
    /\ \/ /\ engine[container[f]].state = "alive"
          /\ host' = [host EXCEPT ![tmpdir[f]].data = @ \cup engine[container[f]].data]
          /\ fpc' = [fpc EXCEPT ![f] = "interpret"]
       \/ /\ fpc' = [fpc EXCEPT ![f] = "finally"]
          /\ UNCHANGED host
    /\ UNCHANGED <<tmpdir, container, engine, out, single>>

\* the output file is read from tmpdir into output_file_payload
FlowInterpret(f) ==
    /\ fpc[f] = "interpret"
    /\ last' = Call(f, {host[tmpdir[f]].owner}, "open")
    /\ out' = [out EXCEPT ![f] = host[tmpdir[f]].data]
    /\ fpc' = [fpc EXCEPT ![f] = "finally"]
    /\ UNCHANGED <<tmpdir, container, host, engine, single>>

\* A cleanup that removes the containers it finds in the engine, not the one
\* the call created
FlowFinallyByListing(f) ==
    /\ fpc[f] = "finally"
    /\ LET found == {c \in Ids : engine[c].state = "alive"}
       IN  /\ last' = Call(f, {engine[c].owner : c \in found}, "remove")
           /\ engine' = [c \in Ids |-> IF c \in found
                                         THEN [engine[c] EXCEPT !.state = "removed"]
                                         ELSE engine[c]]
    /\ fpc' = [fpc EXCEPT ![f] = "exit_with"]
    /\ UNCHANGED <<tmpdir, container, host, out, single>>

\* finally: container.remove(force=True) on the container the call bound, with
\* every error swallowed: that of an unbound `container`, that of the engine
FlowFinally(f) ==
    /\ fpc[f] = "finally"
    /\ IF container[f] = None
       THEN UNCHANGED <<engine, last>>
       ELSE /\ last' = Call(f, {engine[container[f]].owner}, "remove")
            /\ \/ engine' = [engine EXCEPT ![container[f]].state = "removed"]
               \/ UNCHANGED engine
    /\ fpc' = [fpc EXCEPT ![f] = "exit_with"]
    /\ UNCHANGED <<tmpdir, container, host, out, single>>

\* leaving the with block: tmpdir is removed from the host
FlowExitWith(f) ==
    /\ fpc[f] = "exit_with"
    /\ last' = Call(f, {host[tmpdir[f]].owner}, "rmtree")
    /\ host' = [host EXCEPT ![tmpdir[f]] = NoDir]
    /\ fpc' = [fpc EXCEPT ![f] = "done"]
    /\ UNCHANGED <<tmpdir, container, engine, out, single>>

\* one step of the call f
FlowStep(f) ==
    \/ FlowEnterTmpDir(f)
    \/ FlowWriteFiles(f)
    \/ FlowRun(f)
    \/ FlowCopyIn(f)
    \/ FlowWait(f)
    \/ FlowCopyOut(f)
    \/ FlowInterpret(f)
    \/ FlowFinally(f)
    \/ FlowExitWith(f)

ConcNext == \E f \in Flows : FlowStep(f)

\* The calls scheduled in any order
ConcSpec == Init /\ [][ConcNext]_vars

-----------------------------------------------------------------------------
(* Properties *)

Done == pc = "done"
Declared == req.output_file # Absent
LogsRead == logs.stdout /\ logs.stderr

\* C1, as stated: every request that passes validation ends with exactly one
\* sandbox handle created and exactly one force-remove attempted for it.
C1_EveryValidRequestHasOneHandle ==
    (Done /\ hist.validated) => (handle /\ n.run = 1 /\ n.remove = 1)

\* C1, amended: the create call is issued at most once and force-remove at most
\* once; a request for which the create call returned a handle ends with exactly
\* one force-remove attempted, whichever later step failed, and the removal is
\* attempted as soon as the finally clause has been left; a request for which
\* no handle was returned ends with no force-remove sent to the engine.
C1_OneRemovePerHandle ==
    /\ n.run <= 1
    /\ n.remove <= 1
    /\ handle => n.run = 1
    /\ (handle /\ pc \in {"exit_with", "return", "done"}) => n.remove = 1
    /\ ~handle => n.remove = 0

\* C1 witness: a handle was created, a later step raised an error that no
\* except clause catches, and the removal was still attempted once.
C1_Witness ==
    Done /\ handle /\ n.remove = 1 /\ result.msg = "unhandled"
         /\ result.from = "UnicodeDecodeError"

\* C2: a request that allocated a Workspace ends with the Workspace destroyed,
\* by exactly one cleanup, on every path: after an error of the engine at any
\* step, after an error no except clause catches, and after a normal return;
\* a request that allocated none runs no cleanup.
C2_WorkspaceDestroyedOnce ==
    /\ n.mkdir <= 1
    /\ n.rmtree <= n.mkdir
    /\ (ws = "none") <=> (n.mkdir = 0)
    /\ (Done /\ n.mkdir = 1) => (n.rmtree = 1 /\ ws = "destroyed" /\ wsFiles = {})
    /\ (pc = "return") => (n.rmtree = 1 /\ ws = "destroyed")

\* C2 witness: the engine raised mid-flow an error that no clause catches,
\* with the sandbox created, and the Workspace is destroyed.
C2_Witness ==
    Done /\ handle /\ ws = "destroyed" /\ n.rmtree = 1 /\ result.msg = "unhandled"
         /\ result.from = "Other"

\* C3, as stated: when the request has ended and no force-remove call failed,
\* no container that the engine instantiated for the request still exists.
C3_NoSandboxLeft ==
    (Done /\ ~hist.removeFailed) => cstate \in {"none", "removed"}

\* C4, as stated: the command of the sandbox has not begun to execute before
\* the Workspace contents have been copied in.
C4_CopyInBeforeExecution ==
    hist.began > 0 => copiedIn

\* C5: when the wait for the sandbox timed out, the request ends with the
\* execution-time-limit failure (not the generic engine error, not an
\* unhandled error), no copy-out was attempted, and the force-remove of the
\* sandbox was attempted.
C5_TimeoutIsReported ==
    /\ hist.timedOut => (n.get = 0 /\ pc \notin {"get_archive", "read_chunks", "extract"})
    /\ (Done /\ hist.timedOut) =>
           (result.msg = "timeout" /\ result.http = 400 /\ n.remove = 1)

\* C5 witness: a request whose wait timed out has ended.
C5_Witness ==
    Done /\ hist.timedOut /\ result.msg = "timeout" /\ cstate = "removed"

\* C6, as stated: for a sandbox that exited, copy-out is attempted exactly when
\* the exit status is zero and an output file was declared, and a non-zero exit
\* yields an outcome with success false and that exit status.
C6_CopyOutIffZeroAndDeclared ==
    (Done /\ res # NoStatus) =>
        /\ (n.get > 0) <=> (res = 0 /\ Declared)
        /\ res # 0 => (result.msg = "outcome" /\ ~result.success /\ result.exit_code = res)

\* C6, amended: copy-out is attempted only after a zero exit status, with an
\* output file declared and both logs read; once both logs have been read it
\* is attempted exactly when the exit status is zero and an output file was
\* declared, and a non-zero exit then yields an outcome with success false and
\* that exit status, and no copy-out.
C6_CopyOutAfterLogs ==
    /\ n.get <= 1
    /\ n.get > 0 => (res = 0 /\ Declared /\ LogsRead)
    /\ (Done /\ LogsRead) => ((n.get = 1) <=> (res = 0 /\ Declared))
    /\ (Done /\ LogsRead /\ res # 0) =>
           /\ result.msg = "outcome"
           /\ result.http = 400
           /\ ~result.success
           /\ result.exit_code = res
           /\ n.get = 0

\* C6 witness: a non-zero exit with an output file declared ended as an
\* outcome without a copy-out.
C6_Witness ==
    Done /\ res > 0 /\ Declared /\ result.msg = "outcome" /\ n.get = 0

\* C7: when the size the engine declares for the archive is above the limit,
\* the copy-out raises the file-too-big error before any chunk is read and
\* before anything is extracted: no chunk is in the buffer, the output file is
\* not in the Workspace, and the request ends with the message of that error.
C7_TooBigWritesNothing ==
    (stat # NoStatus /\ maxsize > 0 /\ stat > maxsize) =>
        /\ chunks = 0
        /\ ~hist.extracted
        /\ wsFiles \subseteq {"run.py", "requirements.txt"}
        /\ pc \in {"except", "finally", "exit_with", "done"}
        /\ pc \in {"except", "finally", "exit_with"} =>
               (exc.type = "FileTooBigException" \/ result.from = "FileTooBigException")
        /\ Done => (result.msg = "str(e)" /\ result.from = "FileTooBigException")

\* C7 witness: an archive above the output-size limit was refused and the
\* request has ended.
C7_Witness ==
    Done /\ stat > MAX_OUTPUT_FILESIZE /\ maxsize = MAX_OUTPUT_FILESIZE
         /\ result.from = "FileTooBigException"

\* C8: the size check raises exactly when maxsize > 0 and the declared size is
\* greater than maxsize: a size equal to the limit passes, maxsize 0 lets every
\* size pass, and the error carries the size and the limit that were compared.
C8_SizeCheckExact ==
    stat # NoStatus =>
        /\ (exc.type = "FileTooBigException") <=> (maxsize > 0 /\ stat > maxsize)
        /\ (stat = maxsize \/ maxsize = 0) => exc.type # "FileTooBigException"
        /\ exc.type = "FileTooBigException" => (exc.size = stat /\ exc.max = maxsize)

\* C8 witness: an archive whose size equals a positive limit was accepted and
\* its chunks were read.
C8_Witness ==
    stat = maxsize /\ maxsize > 0 /\ chunks > 0 /\ pc = "extract"

\* C9, as stated: when the run exited with status zero, the declared output
\* file was copied out, json was asked for and the file holds no valid JSON,
\* the request ends with the JSON parse failure, with the removal of the
\* sandbox attempted and the Workspace destroyed.
C9_InvalidJsonIsParseError ==
    (Done /\ res = 0 /\ Declared /\ hist.extracted
          /\ req.output_file_type = "json" /\ fileKind # "json") =>
        (result.msg = "json_parse" /\ n.remove = 1 /\ ws = "destroyed")

\* Whether request r has one of the conditions of invalid input, or a token
\* that is not known
Rejectable(r) ==
    \/ r.token \notin TOKENS
    \/ ~b64decode(r.code)
    \/ (r.output_file # Absent /\ ~FILENAME_REGEX(r.output_file))
    \/ r.lang \notin LANGS
    \/ Get(r.output_file_type) \notin {"text", "base64_encoded_binary", "json", Null}

\* C10, as stated: a request with a code payload that cannot be base64-decoded,
\* a malformed output filename, an unsupported language, an unsupported output
\* mode or an unknown token never has a Workspace or a sandbox created for it.
C10_RejectedBeforeAllocation ==
    (req.is_json /\ req.code # <<>> /\ Rejectable(req)) =>
        (ws = "none" /\ n.mkdir = 0 /\ n.run = 0 /\ cstate = "none")

\* C11, as stated: a failure of the cleanup never replaces the outcome that was
\* determined before it: a response held by an except clause is still the
\* response after the finally clause and after the with block have been left,
\* and a run whose try block ended without error goes on to return its outcome.
C11_CleanupKeepsOutcome ==
    [][ /\ (pc \in {"finally", "exit_with"} /\ result # NoResult) => result' = result
        /\ (pc = "exit_with" /\ exc = NoExc /\ result = NoResult) => pc' = "return"
      ]_vars

\* C12, as stated: a request that passed validation and failed ends with one
\* of the failure responses the handler builds itself, never with an error
\* that left exec() unclassified.
C12_NoUnclassifiedFailure ==
    (Done /\ hist.validated) =>
        result.msg \in {"outcome", "json_parse", "timeout", "generic", "str(e)"}

\* The output mode a request asks for, base64 when it gives none
RequestedMode(r) ==
    IF Get(r.output_file_type) = Null THEN "base64_encoded_binary" ELSE r.output_file_type

\* The form of the payload each output mode produces
FormOf(mode) ==
    IF mode = "text" THEN "text" ELSE IF mode = "json" THEN "json" ELSE "base64"

\* C14, as stated: when the run exited with status zero and the declared
\* output file was copied out, the outcome holds the file content in the form
\* of the requested mode, base64 when the request gives no mode, and reports
\* as output format one of the three modes.
C14_PayloadFollowsMode ==
    (Done /\ result.msg = "outcome" /\ res = 0 /\ Declared) =>
        /\ result.output_format \in {"text", "base64_encoded_binary", "json"}
        /\ result.output_format = RequestedMode(req)
        /\ result.output # NoPayload
        /\ result.output.form = FormOf(RequestedMode(req))

\* C15, as stated: within one request the engine is asked at most once to
\* create the sandbox, to take the Workspace contents, to start the command,
\* to wait for it and to hand out the output file.
C15_NoOperationRepeated ==
    /\ n.run <= 1
    /\ n.put <= 1
    /\ n.start + (IF handle THEN 1 ELSE 0) <= 1
    /\ hist.began <= 1
    /\ n.wait <= 1
    /\ n.get <= 1

\* C19, as stated: the response built from a not-found error of the engine is
\* given only when the declared output file was asked for after a run that
\* exited with status zero.
C19_NotFoundOnlyForOutputFile ==
    (Done /\ result.from = "NotFound") => (n.get = 1 /\ res = 0 /\ Declared)

\* C16: whatever exit status the wait returned, the next calls read stdout
\* and stderr; a copy-out is attempted only after both were read; an outcome
\* holds both logs and the exit status, and its success flag is set exactly
\* when the exit status is 0.
C16_LogsThenOutcome ==
    /\ res # NoStatus => (pc = "logs_out" \/ n.logs >= 1)
    /\ (n.get > 0 \/ pc \in {"get_archive", "read_chunks", "extract", "interpret"}) =>
           (LogsRead /\ n.logs = 2)
    /\ (Done /\ result.msg = "outcome") =>
           /\ res # NoStatus
           /\ result.stdout /\ result.stderr
           /\ result.exit_code = res
           /\ result.success <=> (res = 0)
           /\ (result.http = 200) <=> (res = 0)

\* C16 witness: a non-zero exit ended as an outcome that holds both logs and
\* is no success.
C16_Witness ==
    Done /\ result.msg = "outcome" /\ res > 0 /\ result.stdout /\ result.stderr
         /\ ~result.success

\* What exec() answers when exception e is raised inside its try block
Answer(e) == IF Handle(e) # NoResult THEN Handle(e) ELSE Unhandled(e)

\* C17: when the create call raised and left no handle, the finally clause is
\* left without an error of its own and without a call to the engine, the
\* Workspace is destroyed, and the response is the one of the creation error.
C17_AbsentHandleTolerated ==
    /\ (n.run = 1 /\ ~handle /\ pc \in {"exit_with", "done"}) =>
           (n.remove = 0 /\ exc.type # "NameError")
    /\ (Done /\ n.run = 1 /\ ~handle) =>
           /\ ws = "destroyed"
           /\ n.rmtree = 1
           /\ hist.createError # NoExc
           /\ result = Answer(hist.createError)

\* C17 witness: the engine refused the create call, no handle exists, and the
\* request ended with the generic engine failure.
C17_Witness ==
    Done /\ n.run = 1 /\ ~handle /\ hist.createError = Exc("APIError")
         /\ result = die("generic", 500) /\ ws = "destroyed"

\* The calls of the container engine other than the removal, issued so far
EngineCalls == <<n.run, n.put, n.start, n.wait, n.logs, n.get>>

\* C18: the removal of the sandbox is attempted before the Workspace is
\* destroyed; once either cleanup was attempted no further call is sent to the
\* sandbox; once the Workspace is destroyed no file of it is written and the
\* output payload is not read again: it was read before.
C18_CleanupLastAndOrdered ==
    /\ [] /\ (n.rmtree > 0 /\ handle) => n.remove = 1
          /\ ws = "destroyed" => (wsFiles = {} /\ pc \in {"return", "done"})
          /\ (pc = "return" /\ hist.extracted /\ req.output_file_type # Null) =>
                 payload # NoPayload
    /\ [][ /\ (n.remove > 0 \/ n.rmtree > 0) => EngineCalls' = EngineCalls
           /\ n.rmtree > 0 => n'.remove = n.remove
           /\ ws = "destroyed" => (wsFiles' = wsFiles /\ payload' = payload) ]_vars

\* C18 witness: an output file was copied out and read, the sandbox removed,
\* then the Workspace destroyed, and the outcome holds the payload.
C18_Witness ==
    Done /\ hist.extracted /\ n.remove = 1 /\ n.rmtree = 1 /\ ws = "destroyed"
         /\ result.msg = "outcome" /\ result.output.form = "base64"

\* C20, as stated, for the requests that passed validation: the request has
\* passed through the cleanup when it has ended.
C20_EveryRequestFinalizes ==
    (Done /\ hist.validated) => n.rmtree = 1

\* C20, amended: every request ends, and stays ended with its one response;
\* a request whose Workspace was allocated has then passed through the
\* cleanup: the Workspace is destroyed, and the removal of the sandbox was
\* attempted when a handle existed.
C20_Terminates ==
    <>[] /\ Done
         /\ result # NoResult
         /\ n.mkdir = 1 => (n.rmtree = 1 /\ ws = "destroyed")
         /\ handle => n.remove = 1

\* C20 witness: a request whose wait timed out, with the command still
\* running, has ended after the cleanup.
C20_Witness ==
    Done /\ hist.timedOut /\ n.rmtree = 1 /\ n.remove = 1 /\ result # NoResult

\* the call f is inside its with block
InWith(f) == fpc[f] \notin {"tmpdir", "done"}

\* C13: under every interleaving of the calls, each call on a directory or a
\* container is issued by the call that created it, no two calls hold the
\* same container or the same directory, what a directory, a container or a
\* response holds comes from its own call alone, and a call that has not
\* ended can take its next step whatever the other calls are doing.
C13_FlowsIsolated ==
    /\ last.on \subseteq {last.by}
    /\ \A f \in Flows : \A g \in Flows \ {f} :
          /\ container[f] # None => container[f] # container[g]
          /\ (InWith(f) /\ InWith(g)) => tmpdir[f] # tmpdir[g]
    /\ \A d \in Dirs : host[d].data \subseteq {host[d].owner}
    /\ \A c \in Ids : engine[c].data \subseteq {engine[c].owner}
    /\ \A f \in Flows : out[f] \subseteq {f}
    /\ \A f \in Flows : fpc[f] # "done" => ENABLED FlowStep(f)

\* C13 witness: a call has just removed its container while another call,
\* inside its own with block, holds a container that is still alive and has
\* received that call's files.
C13_Witness ==
    \E f \in Flows : \E g \in Flows \ {f} :
        /\ last = Call(f, {f}, "remove")
        /\ engine[container[f]].state = "removed"
        /\ InWith(g)
        /\ container[g] # None
        /\ engine[container[g]].state = "alive"
        /\ engine[container[g]].data = {g}

====
